---- MODULE Spec2Model ----
(***************************************************************************)
(* State-machine model of src/api.py: the CustomAI engine (template banks, *)
(* per-query used-response lists, training corpus, periodic re-clustering  *)
(* and snapshot file) behind the POST /generate-response handler.           *)
(*                                                                         *)
(* Python strings are TLA+ strings; lower(), strip(), the `in` substring   *)
(* test, str.format and the two re.findall patterns are computed character *)
(* by character.  The typographic apostrophe of some literals is written   *)
(* as ' (it is neither \w nor \s, like the original).                       *)
(***************************************************************************)
EXTENDS Integers, Sequences, FiniteSets, TLC

(***************************************************************************)
(* Bounds of the model.                                                    *)
(***************************************************************************)
\* requests are explored while self.query_count is below this
MaxQueryCount == 6
\* the same, for the runs that repeat one topic (SpecRepeat)
MaxRepeatCount == 8
\* the model keeps the first NumFormats of the 7 generic response_formats
NumFormats == 1
\* the model keeps the first NumSkeletons of the 7 rephrasing templates
NumSkeletons == 1
\* requests that arrive at the event loop of SpecLoop
MaxTasks == 3
\* the counter value up to which requests are served in SpecLong
MaxLongCount == 11

(***************************************************************************)
(* Program constants.                                                      *)
(***************************************************************************)
train_interval == 5
num_clusters == 10
max_iterations == 50

None == "<None>"

(***************************************************************************)
(* Strings.                                                                *)
(***************************************************************************)
Range(s) == {s[i] : i \in DOMAIN s}

Char(s, i) == SubSeq(s, i, i)

UpperCase == "ABCDEFGHIJKLMNOPQRSTUVWXYZ"
LowerCase == "abcdefghijklmnopqrstuvwxyz"
Digits == "0123456789_"

StrChars(s) == {Char(s, i) : i \in 1..Len(s)}

UpperSet == StrChars(UpperCase)
WordSet == StrChars(UpperCase) \cup StrChars(LowerCase) \cup StrChars(Digits)
SpaceSet == {" ", "\t", "\n"}

LowerChar(c) ==
    IF c \in UpperSet
    THEN Char(LowerCase, CHOOSE i \in 1..26 : Char(UpperCase, i) = c)
    ELSE c

Min(S) == CHOOSE m \in S : \A n \in S : m <= n

\* str.lower()
RECURSIVE Lower(_)
Lower(s) ==
    LET upper == {i \in 1..Len(s) : Char(s, i) \in UpperSet}
    IN  IF upper = {} THEN s
        ELSE LET i == Min(upper)
             IN  SubSeq(s, 1, i - 1) \o LowerChar(Char(s, i))
                 \o Lower(SubSeq(s, i + 1, Len(s)))

\* the text as it was sent
StripNothing(s) == s

\* str.strip()
Strip(s) ==
    LET keep == {i \in 1..Len(s) : Char(s, i) \notin SpaceSet}
    IN  IF keep = {} THEN ""
        ELSE SubSeq(s, Min(keep), CHOOSE m \in keep : \A n \in keep : n <= m)

\* does t occur in s at position i
At(s, i, t) == i + Len(t) - 1 <= Len(s) /\ SubSeq(s, i, i + Len(t) - 1) = t

\* Python: t in s
Contains(s, t) == \E i \in 1..(Len(s) + 1) : At(s, i, t)

Slot == "{query}"
ActionSlot == "{action}"

\* one left-to-right pass replacing every occurrence of slot by v
RECURSIVE Replace(_, _, _)
Replace(f, slot, v) ==
    LET hits == {i \in 1..Len(f) : At(f, i, slot)}
    IN  IF hits = {} THEN f
        ELSE LET i == Min(hits)
             IN  SubSeq(f, 1, i - 1) \o v
                 \o Replace(SubSeq(f, i + Len(slot), Len(f)), slot, v)

\* f.format(query=q) and f.replace("{query}", q), for f whose only braces
\* are those of {query} slots
Format(f, q) == Replace(f, Slot, q)

\* t.format(query=q, action=a) for the rephrasing templates, in which
\* {query} precedes {action}
FormatAction(t, q, a) ==
    LET i == Min({k \in 1..Len(t) : At(t, k, ActionSlot)})
    IN  Format(SubSeq(t, 1, i - 1), q) \o a
        \o SubSeq(t, i + Len(ActionSlot), Len(t))

\* str.strip(".")
StripDots(s) ==
    LET keep == {i \in 1..Len(s) : Char(s, i) # "."}
    IN  IF keep = {} THEN ""
        ELSE SubSeq(s, Min(keep), CHOOSE m \in keep : \A n \in keep : n <= m)

(***************************************************************************)
(* re.findall(r"(?:c1|c2|...)\s+[\w\s]+(?:\.)", s, re.IGNORECASE).  After   *)
(* a connector the pattern needs a whitespace character, then the maximal  *)
(* run of [\w\s] characters (at least two of them: one for \s+, one for    *)
(* [\w\s]+), then a full stop.  Matches are leftmost and do not overlap.   *)
(***************************************************************************)
\* the last index of the maximal run of [\w\s] characters starting at i
RunEnd(s, i) ==
    LET stop == {k \in i..Len(s) : Char(s, k) \notin (WordSet \cup SpaceSet)}
    IN  IF stop = {} THEN Len(s) ELSE Min(stop) - 1

\* the index of the last character of the match starting at i, or 0
MatchEnd(s, ls, i, connectors) ==
    IF \E k \in DOMAIN connectors : At(ls, i, connectors[k])
    THEN LET k == CHOOSE k \in DOMAIN connectors : At(ls, i, connectors[k])
             j == i + Len(connectors[k])
             e == RunEnd(s, j)
         IN  IF /\ j <= Len(s)
                /\ Char(s, j) \in SpaceSet
                /\ e >= j + 1
                /\ e + 1 <= Len(s)
                /\ Char(s, e + 1) = "."
             THEN e + 1 ELSE 0
    ELSE 0

RECURSIVE FindAllFrom(_, _, _, _, _)
FindAllFrom(s, ls, starts, i, connectors) ==
    LET rest == {k \in starts : k >= i}
    IN  IF rest = {} THEN <<>>
        ELSE LET k == Min(rest)
                 e == MatchEnd(s, ls, k, connectors)
             IN  <<SubSeq(s, k, e)>>
                 \o FindAllFrom(s, ls, starts, e + 1, connectors)

\* ls is s lower-cased (re.IGNORECASE)
FindAll(s, ls, connectors) ==
    LET initials == {Char(connectors[k], 1) : k \in DOMAIN connectors}
        starts == {i \in 1..Len(s) :
                      Char(ls, i) \in initials /\ MatchEnd(s, ls, i, connectors) > 0}
    IN  FindAllFrom(s, ls, starts, 1, connectors)

PhraseConnectors == <<"for", "with", "regarding", "to", "about">>
ActionConnectors == <<"please", "kindly", "you can", "we recommend">>

MapSeq(s, Op(_)) == [i \in DOMAIN s |-> Op(s[i])]

\* the phrases one existing response contributes
PhrasesOf(resp, lq) ==
    LET clean_resp == Format(resp, lq)
        lower_resp == Lower(clean_resp)
    IN  MapSeq(FindAll(clean_resp, lower_resp, PhraseConnectors), StripDots)
        \o MapSeq(FindAll(clean_resp, lower_resp, ActionConnectors), StripDots)

RECURSIVE KeyPhrasesFrom(_, _, _)
KeyPhrasesFrom(existing, i, lq) ==
    IF i > Len(existing) THEN <<>>
    ELSE PhrasesOf(existing[i], lq) \o KeyPhrasesFrom(existing, i + 1, lq)

KeyPhrases(existing, lq) == KeyPhrasesFrom(existing, 1, lq)

(***************************************************************************)
(* Static data of CustomAI.__init__.  The model keeps two of the 46        *)
(* categories, in their declaration order, with all their keywords and     *)
(* templates, and a prefix of the generic and of the rephrasing lists.     *)
(***************************************************************************)
AllResponseFormats ==
    << "To {query}, please use the website's designated process.",
       "For {query}, follow the instructions on our site.",
       "Regarding {query}, check the appropriate section on the website.",
       "To address {query}, refer to the site's guidelines.",
       "For assistance with {query}, explore the available options online.",
       "To handle {query}, use the provided tools on the website.",
       "Concerning {query}, navigate to the site's resources." >>

InitialResponseFormats == SubSeq(AllResponseFormats, 1, NumFormats)

CategoryOrder == <<"water_bottle_service", "washroom_service">>

Categories == Range(CategoryOrder)

Keywords ==
    [c \in Categories |->
        IF c = "water_bottle_service" THEN <<"water bottle", "water service">>
        ELSE <<"washroom", "toilet">>]

InitialResponses ==
    [c \in Categories |->
        IF c = "water_bottle_service"
        THEN << "We regret to inform you that, as of now, we do not offer water bottle services on our Flix buses for {query}.",
                "We recommend that passengers bring their own water bottles for their journey for {query}." >>
        ELSE << "I regret to inform you that as of now, Flix does not provide washroom facilities on the bus for {query}. However, the bus host will take care of comfort breaks." >>]

AllTemplates ==
    << "I'm here to assist with {query}. {action}",
       "Thank you for reaching out about {query}. {action}",
       "Regarding your concern with {query}, {action}",
       "I understand your request for {query}. {action}",
       "For {query}, {action}",
       "We appreciate your inquiry about {query}. {action}",
       "To address {query}, {action}" >>

templates == SubSeq(AllTemplates, 1, NumSkeletons)

FallbackAction == "please refer to our website for further details"
RetryFallbackAction == "check our website for more information"

EmptyTrainingData ==
    [queries |-> <<>>, cluster_labels |-> <<>>, generated_responses |-> <<>>]

(***************************************************************************)
(* The request texts the model draws from.  Each holds at most one term    *)
(* for the vectorizer, so its TF-IDF row is a unit vector or zero.         *)
(***************************************************************************)
QueryTexts == {"toilet", "Toilet", "the", "  "}

\* two texts of one category, neither a part of the other (SpecTopic)
TopicTexts == {"toilet", "washroom"}

(***************************************************************************)
(* TfidfVectorizer(max_features=100, stop_words='english'): lower-cases,   *)
(* takes the runs of two or more word characters as tokens and drops the   *)
(* stop words.                                                             *)
(***************************************************************************)
StopWords == {"the", "to", "for", "with", "about"}

Tokens(s) ==
    LET ls == Lower(s)
        IsWord(i) == i >= 1 /\ i <= Len(ls) /\ Char(ls, i) \in WordSet
        starts == {i \in 1..Len(ls) : IsWord(i) /\ ~IsWord(i - 1)}
        EndOf(i) == Min({k \in i..Len(ls) : ~IsWord(k + 1)})
    IN  {SubSeq(ls, i, EndOf(i)) : i \in {k \in starts : EndOf(k) > k}}

Terms(s) == Tokens(s) \ StopWords

\* a text of stop words only, and two of one term each (SpecDegenerate)
DegenerateTexts == {"the", "toilet", "washroom"}

TermsOf ==
    [q \in {Strip(t) : t \in QueryTexts \cup TopicTexts \cup DegenerateTexts} |->
        Terms(q)]

UnfittedVectorizer == [fitted |-> FALSE, vocabulary |-> {}]

\* vectorizer.fit_transform(queries): the vocabulary, or "ValueError" when
\* no document holds a term ("empty vocabulary")
FitVocabulary(queries) == UNION {TermsOf[queries[i]] : i \in DOMAIN queries}

\* the row of one document under a fitted vocabulary
Features(vocabulary, q) ==
    [t \in vocabulary |-> IF t \in TermsOf[q] THEN 1 ELSE 0]

RECURSIVE SumOver(_, _)
SumOver(S, f) ==
    IF S = {} THEN 0
    ELSE LET x == CHOOSE x \in S : TRUE IN f[x] + SumOver(S \ {x}, f)

\* the square of np.linalg.norm(u - v)
Dist2(u, v) == SumOver(DOMAIN u, [t \in DOMAIN u |-> (u[t] - v[t]) * (u[t] - v[t])])

(***************************************************************************)
(* CustomAI.custom_cluster.  A centroid is kept as the sum and the number  *)
(* of the points it is the mean of, and distances are compared exactly.    *)
(* Labels are the 0-based centroid indices np.argmin returns.              *)
(***************************************************************************)
\* random.sample(range(n), num_clusters); the model draws the samples that
\* are cyclic windows of the index range
SeedSamples(n) ==
    {[k \in 1..num_clusters |-> ((o + k - 1) % n) + 1] : o \in 0..(n - 1)}

CentroidDist(p, c) ==
    [num |-> SumOver(DOMAIN p, [t \in DOMAIN p |->
                 (c.n * p[t] - c.sum[t]) * (c.n * p[t] - c.sum[t])]),
     den |-> c.n * c.n]

\* a variant that counts the centroids from 1
ArgMinCentroidFromOne(p, centroids) ==
    LET d == [k \in DOMAIN centroids |-> CentroidDist(p, centroids[k])]
    IN  Min({k \in DOMAIN d :
                \A j \in DOMAIN d : d[k].num * d[j].den <= d[j].num * d[k].den})

\* np.argmin: the first index of a minimal distance
ArgMinCentroid(p, centroids) ==
    LET d == [k \in DOMAIN centroids |-> CentroidDist(p, centroids[k])]
    IN  Min({k \in DOMAIN d :
                \A j \in DOMAIN d : d[k].num * d[j].den <= d[j].num * d[k].den}) - 1

AssignLabels(features, centroids) ==
    LET label == [v \in Range(features) |-> ArgMinCentroid(v, centroids)]
    IN  [i \in DOMAIN features |-> label[features[i]]]

\* a variant that moves the centroid of an empty cluster to the origin
UpdateCentroidsResetting(features, centroids, labels) ==
    [k \in DOMAIN centroids |->
        LET cluster_points == {i \in DOMAIN features : labels[i] = k - 1}
        IN  IF cluster_points = {}
            THEN [sum |-> [t \in DOMAIN features[1] |-> 0], n |-> 1]
            ELSE [sum |-> [t \in DOMAIN features[1] |->
                              SumOver(cluster_points,
                                      [i \in cluster_points |-> features[i][t]])],
                  n |-> Cardinality(cluster_points)]]

UpdateCentroids(features, centroids, labels) ==
    [k \in DOMAIN centroids |->
        LET cluster_points == {i \in DOMAIN features : labels[i] = k - 1}
        IN  IF cluster_points = {} THEN centroids[k]
            ELSE [sum |-> [t \in DOMAIN features[1] |->
                              SumOver(cluster_points,
                                      [i \in cluster_points |-> features[i][t]])],
                  n |-> Cardinality(cluster_points)]]

RECURSIVE ClusterLoop(_, _, _, _)
ClusterLoop(features, centroids, labels, done) ==
    IF done = max_iterations THEN labels
    ELSE LET new_labels == AssignLabels(features, centroids)
         IN  IF new_labels = labels THEN labels
             ELSE ClusterLoop(features,
                              UpdateCentroids(features, centroids, new_labels),
                              new_labels, done + 1)

\* a clustering that labels nothing
custom_cluster_unlabelled(features, indices) == [i \in DOMAIN features |-> -1]

\* a clustering that leaves the last point unlabelled
custom_cluster_but_last(features, indices) ==
    LET labels == ClusterLoop(features,
                      [k \in 1..num_clusters |-> [sum |-> features[indices[k]], n |-> 1]],
                      [i \in DOMAIN features |-> -1], 0)
    IN  [i \in DOMAIN features |-> IF i = Len(features) THEN -1 ELSE labels[i]]

custom_cluster(features, indices) ==
    IF Len(features) < num_clusters
    THEN [i \in DOMAIN features |-> -1]
    ELSE ClusterLoop(features,
                     [k \in 1..num_clusters |-> [sum |-> features[indices[k]], n |-> 1]],
                     [i \in DOMAIN features |-> -1], 0)

(***************************************************************************)
(* The snapshot file.  kind: "missing", "garbage" (not valid JSON) or      *)
(* "json"; a JSON value is an object (isdict) with the keys `keys`.        *)
(***************************************************************************)
MissingFile ==
    [kind |-> "missing", isdict |-> FALSE, keys |-> {}, data |-> EmptyTrainingData]

GarbageFile ==
    [kind |-> "garbage", isdict |-> FALSE, keys |-> {}, data |-> EmptyTrainingData]

JsonFile(keys, data) ==
    [kind |-> "json", isdict |-> TRUE, keys |-> keys, data |-> data]

\* a file that exists and cannot be opened for reading
UnreadableFile ==
    [kind |-> "unreadable", isdict |-> FALSE, keys |-> {}, data |-> EmptyTrainingData]

\* valid JSON that is not an object
JsonList ==
    [kind |-> "json", isdict |-> FALSE, keys |-> {}, data |-> EmptyTrainingData]

AllKeys == {"queries", "cluster_labels", "generated_responses"}

\* json.dump(self.training_data, f, indent=2)
Dump(training_data) == JsonFile(AllKeys, training_data)

\* a loader that takes whatever the file holds
load_training_data_trusting(file) == file.data

\* CustomAI.load_training_data: the training data the engine starts with
load_training_data(file) ==
    IF file.kind = "json"
    THEN IF file.isdict /\ "queries" \in file.keys /\ "cluster_labels" \in file.keys
         THEN IF "generated_responses" \in file.keys
              THEN file.data
              ELSE [file.data EXCEPT !.generated_responses = <<>>]
         ELSE EmptyTrainingData
    ELSE EmptyTrainingData

NoSave == [valid |-> FALSE, training_data |-> EmptyTrainingData,
           used_response_sets |-> <<>>]

\* CustomAI.__init__ followed by load_training_data
Construct(file, saved) ==
    [training_data |-> load_training_data(file),
     query_count |-> 0,
     used_response_sets |-> <<>>,
     response_formats |-> InitialResponseFormats,
     query_response_map |-> InitialResponses,
     vectorizer |-> UnfittedVectorizer,
     labels_numpy |-> FALSE,
     data_file |-> file,
     saved |-> saved,
     passes |-> <<>>]

(***************************************************************************)
(* CustomAI.save_training_data.  open() may fail (io_ok = FALSE), leaving  *)
(* the file as it was.  json.dump raises TypeError on the numpy integers   *)
(* custom_cluster returns, after the file was truncated and partly         *)
(* written; both exceptions are caught.  `saved` records the state in      *)
(* memory at the last call that opened the file.                           *)
(***************************************************************************)
\* a save whose failure loses the training data in memory
save_training_data_dropping(ai, io_ok) ==
    [ai EXCEPT
        !.data_file = IF ~io_ok THEN @ ELSE GarbageFile,
        !.training_data = IF io_ok /\ ~ai.labels_numpy THEN @
                          ELSE EmptyTrainingData]

save_training_data(ai, io_ok) ==
    [ai EXCEPT
        !.data_file = IF ~io_ok THEN @
                      ELSE IF ai.labels_numpy THEN GarbageFile
                      ELSE Dump(ai.training_data),
        !.saved = IF ~io_ok THEN @
                  ELSE [valid |-> TRUE, training_data |-> ai.training_data,
                        used_response_sets |-> ai.used_response_sets]]

(***************************************************************************)
(* CustomAI.train_model: the set of states it can leave.  `passes` records *)
(* each entry into the re-clustering branch (line 559) of the request:     *)
(* the counter, whether fit_transform and custom_cluster completed,        *)
(* whether the file could be opened, the training data in memory before    *)
(* the save and the file after it.                                         *)
(***************************************************************************)
\* a variant whose failing pass leaves every position unlabelled
PassRaisedUnlabelled(ai1) ==
    LET ai2 == [ai1 EXCEPT !.training_data.cluster_labels =
                               [i \in DOMAIN @ |-> -1]]
    IN  [ai2 EXCEPT !.passes = Append(@,
            [count |-> ai2.query_count, completed |-> FALSE,
             io_ok |-> TRUE, training_data |-> ai2.training_data,
             file |-> ai2.data_file])]

\* lines 560-561 and 566-568: fit_transform raised before line 563 assigned
\* the labels; the exception is logged
PassRaised(ai1) ==
    [ai1 EXCEPT !.passes = Append(@,
        [count |-> ai1.query_count, completed |-> FALSE,
         io_ok |-> TRUE, training_data |-> ai1.training_data,
         file |-> ai1.data_file])]

\* a variant that records the query twice under one count
RecordedTwice(ai, query, generated_response, category) ==
    [ai EXCEPT
       !.query_count = @ + 1,
       !.training_data.queries = Append(Append(@, query), query),
       !.training_data.cluster_labels = Append(Append(@, -1), -1)]

\* lines 551-557: count the query, append it with label -1, log the
\* generated response of a category
Recorded(ai, query, generated_response, category) ==
    LET td == ai.training_data
        log == td.generated_responses
    IN  [ai EXCEPT
           !.query_count = @ + 1,
           !.training_data =
               [queries |-> Append(td.queries, query),
                cluster_labels |-> Append(td.cluster_labels, -1),
                generated_responses |->
                    IF generated_response # None /\ category # None
                    THEN IF category \in DOMAIN log
                         THEN [log EXCEPT ![category] = Append(@, generated_response)]
                         ELSE log @@ (category :> <<generated_response>>)
                    ELSE log]]

train_model(ai, query, generated_response, category) ==
    LET ai1 == Recorded(ai, query, generated_response, category)
        queries == ai1.training_data.queries
        vocabulary == FitVocabulary(queries)
        features == [i \in DOMAIN queries |-> Features(vocabulary, queries[i])]
    IN  IF ai1.query_count % train_interval = 0 /\ Len(queries) >= num_clusters
        THEN IF vocabulary = {}
             THEN {PassRaised(ai1)}
             ELSE {LET ai2 == [ai1 EXCEPT
                                 !.vectorizer = [fitted |-> TRUE,
                                                 vocabulary |-> vocabulary],
                                 !.training_data.cluster_labels =
                                     custom_cluster(features, indices),
                                 !.labels_numpy = TRUE]
                       ai3 == save_training_data(ai2, io_ok)
                   IN  [ai3 EXCEPT !.passes = Append(@,
                          [count |-> ai1.query_count, completed |-> TRUE,
                           io_ok |-> io_ok, training_data |-> ai2.training_data,
                           file |-> ai3.data_file])] :
                   indices \in SeedSamples(Len(queries)), io_ok \in BOOLEAN}
        ELSE {ai1}

(***************************************************************************)
(* CustomAI.get_query_category                                             *)
(***************************************************************************)
\* a router that returns the last category with a hit
get_query_category_last(query) ==
    LET query_lower == Lower(query)
        hit == {c \in DOMAIN CategoryOrder :
                   \E k \in DOMAIN Keywords[CategoryOrder[c]] :
                       Contains(query_lower, Keywords[CategoryOrder[c]][k])}
    IN  IF hit = {} THEN None
        ELSE CategoryOrder[CHOOSE c \in hit : \A d \in hit : d <= c]

get_query_category(query) ==
    LET query_lower == Lower(query)
        hit == {c \in DOMAIN CategoryOrder :
                   \E k \in DOMAIN Keywords[CategoryOrder[c]] :
                       Contains(query_lower, Keywords[CategoryOrder[c]][k])}
    IN  IF hit = {} THEN None ELSE CategoryOrder[Min(hit)]

(***************************************************************************)
(* CustomAI.generate_new_response: the set of [response, attempts] it can  *)
(* return, attempts being the number of candidates it generated.           *)
(***************************************************************************)
Candidates(query, actions) ==
    {FormatAction(templates[t], Lower(query), a) : t \in DOMAIN templates, a \in actions}

\* a synthesizer that tries a third candidate when the second collides too
generate_new_response_again(ai, query, category) ==
    LET existing_responses ==
            IF category \in DOMAIN ai.query_response_map
            THEN ai.query_response_map[category]
            ELSE ai.response_formats
        key_phrases == KeyPhrases(existing_responses, Lower(query))
        log == ai.training_data.generated_responses
        all_responses ==
            Range(existing_responses)
            \cup (IF category \in DOMAIN log THEN Range(log[category]) ELSE {})
        first == Candidates(query, IF key_phrases # <<>> THEN Range(key_phrases)
                                   ELSE {FallbackAction})
        second == Candidates(query, IF key_phrases # <<>> THEN Range(key_phrases)
                                    ELSE {RetryFallbackAction})
    IN  {[response |-> r, attempts |-> 1] : r \in first \ all_responses}
        \cup (IF first \cap all_responses = {} THEN {}
              ELSE {[response |-> r, attempts |-> 2] : r \in second \ all_responses}
                   \cup (IF second \cap all_responses = {} THEN {}
                         ELSE {[response |-> r, attempts |-> 3] : r \in second}))

generate_new_response(ai, query, category) ==
    LET existing_responses ==
            IF category \in DOMAIN ai.query_response_map
            THEN ai.query_response_map[category]
            ELSE ai.response_formats
        key_phrases == KeyPhrases(existing_responses, Lower(query))
        log == ai.training_data.generated_responses
        all_responses ==
            Range(existing_responses)
            \cup (IF category \in DOMAIN log THEN Range(log[category]) ELSE {})
        first == Candidates(query, IF key_phrases # <<>> THEN Range(key_phrases)
                                   ELSE {FallbackAction})
        second == Candidates(query, IF key_phrases # <<>> THEN Range(key_phrases)
                                    ELSE {RetryFallbackAction})
    IN  {[response |-> r, attempts |-> 1] : r \in first \ all_responses}
        \cup (IF first \cap all_responses = {} THEN {}
              ELSE {[response |-> r, attempts |-> 2] : r \in second})

(***************************************************************************)
(* CustomAI.generate_initial_response: the set of outcomes                 *)
(* [ai, response, category, synthesized, attempts, available].             *)
(***************************************************************************)
\* a variant that starts the used set of the query afresh
EnsureUsedFresh(ai, query) ==
    IF query \in DOMAIN ai.used_response_sets
    THEN [ai EXCEPT !.used_response_sets[query] = <<>>]
    ELSE [ai EXCEPT !.used_response_sets = @ @@ (query :> <<>>)]

EnsureUsed(ai, query) ==
    IF query \in DOMAIN ai.used_response_sets THEN ai
    ELSE [ai EXCEPT !.used_response_sets = @ @@ (query :> <<>>)]

Unused(formats, used_responses, query) ==
    LET fresh(f) == Format(f, Lower(query)) \notin Range(used_responses)
    IN  SelectSeq(formats, fresh)

\* the generic list, whatever the scope
BankGeneric(ai, scope) == ai.response_formats

\* the bank of a scope: a category's template list, or the generic list
Bank(ai, scope) ==
    IF scope # None /\ scope \in DOMAIN ai.query_response_map
    THEN ai.query_response_map[scope]
    ELSE ai.response_formats

Scope(ai, category) ==
    IF category # None /\ category \in DOMAIN ai.query_response_map
    THEN category ELSE None

\* a variant that appends to the generic list, whatever the scope
AppendToGeneric(ai, scope, response) ==
    [ai EXCEPT !.response_formats = Append(@, response)]

AppendToBank(ai, scope, response) ==
    IF scope # None
    THEN [ai EXCEPT !.query_response_map[scope] = Append(@, response)]
    ELSE [ai EXCEPT !.response_formats = Append(@, response)]

\* lines 632-660 and their copies at 694-724: select an unused template of
\* the scope's bank, or synthesize, append to the bank and train
SelectOrSynthesize(ai, query, scope) ==
    LET used_responses == ai.used_response_sets[query]
        available_formats == Unused(Bank(ai, scope), used_responses, query)
    IN  IF available_formats = <<>>
        THEN {[ai |-> [ai2 EXCEPT !.used_response_sets[query] = Append(@, n.response)],
               response |-> n.response, category |-> scope, synthesized |-> TRUE,
               attempts |-> n.attempts, available |-> 0] :
                 <<n, ai2>> \in UNION {
                     {n} \X train_model(AppendToBank(ai, scope, n.response),
                                        query, n.response, scope) :
                     n \in generate_new_response(ai, query, scope)}}
        ELSE {[ai |-> [ai EXCEPT !.used_response_sets[query] =
                                    Append(@, Format(f, Lower(query)))],
               response |-> Format(f, Lower(query)), category |-> scope,
               synthesized |-> FALSE, attempts |-> 0,
               available |-> Len(available_formats)] :
                 f \in Range(available_formats)}

generate_initial_response(ai, query, category) ==
    SelectOrSynthesize(EnsureUsed(ai, query), query, Scope(ai, category))

(***************************************************************************)
(* CustomAI.generate_response: the set of outcomes, each with its status   *)
(* and the route taken ("direct", "clustered" or "fallback").              *)
(***************************************************************************)
\* no similarity lookup completed
NoLookup == [nearest |-> 0, queries |-> <<>>, labels |-> <<>>]

WithStatus(outcomes, status, route) ==
    {[ai |-> o.ai, response |-> o.response, category |-> o.category,
      synthesized |-> o.synthesized, attempts |-> o.attempts,
      available |-> o.available, status |-> status, route |-> route,
      similar |-> None, lookup |-> NoLookup] :
        o \in outcomes}

\* the outcomes of a completed lookup: the historical query chosen (None when
\* the cluster holds no other text), the position of the nearest match and
\* the corpus and labels the lookup read
Via(outcomes, similar, lookup) ==
    {[o EXCEPT !.similar = similar, !.lookup = lookup] : o \in outcomes}

\* np.argmin(distances): the first corpus position nearest to the query
Nearest(ai, query) ==
    LET v == ai.vectorizer.vocabulary
        queries == ai.training_data.queries
        d == [i \in DOMAIN queries |->
                 Dist2(Features(v, query), Features(v, queries[i]))]
    IN  Min({i \in DOMAIN d : \A j \in DOMAIN d : d[i] <= d[j]})

\* a variant that takes every position, whatever its label
ClusterIndicesAll(labels, nearest) == [i \in DOMAIN labels |-> i]

\* lines 677-680: the positions that carry the label of the nearest match
ClusterIndices(labels, nearest) ==
    SelectSeq([i \in DOMAIN labels |-> i],
              LAMBDA i : labels[i] = labels[nearest])

\* lines 670-734, once the corpus holds num_clusters queries
SimilarityPath(ai, query, category) ==
    LET queries == ai.training_data.queries
        labels == ai.training_data.cluster_labels
        nearest == Nearest(ai, query)
        cluster_indices == ClusterIndices(labels, nearest)
        ai1 == EnsureUsed(ai, query)
        available_queries ==
            SelectSeq([k \in DOMAIN cluster_indices |-> queries[cluster_indices[k]]],
                      LAMBDA q : Lower(q) # Lower(query))
        Fallback(a, error) ==
            WithStatus(generate_initial_response(a, query, category),
                       "Model error: " \o error, "fallback")
        lookup == [nearest |-> nearest, queries |-> queries, labels |-> labels]
    IN  IF ~ai.vectorizer.fitted THEN Fallback(ai, "NotFittedError")
        ELSE IF nearest > Len(labels) THEN Fallback(ai, "IndexError")
        ELSE IF \E k \in DOMAIN cluster_indices : cluster_indices[k] > Len(queries)
             THEN Fallback(ai1, "IndexError")
        ELSE IF available_queries # <<>>
             THEN UNION {Via(WithStatus(
                                 SelectOrSynthesize(ai1, query,
                                     Scope(ai1, get_query_category(similar_query))),
                                 "Success (clustered)", "clustered"),
                             similar_query, lookup) :
                          similar_query \in Range(available_queries)}
             ELSE Via(WithStatus(generate_initial_response(ai1, query, category),
                                 "Success (clustered)", "clustered"),
                      None, lookup)

\* the engine with the similarity path taken only above num_clusters
generate_response_above(ai, query) ==
    LET category == get_query_category(query)
    IN  UNION {IF Len(ai1.training_data.queries) <= num_clusters
               THEN WithStatus(generate_initial_response(ai1, query, category),
                               "Success", "direct")
               ELSE SimilarityPath(ai1, query, category) :
               ai1 \in train_model(ai, query, None, None)}

\* the engine with a fallback that ignores the router's category
generate_response_unrouted(ai, query) ==
    LET category == get_query_category(query)
    IN  UNION {IF Len(ai1.training_data.queries) < num_clusters
               THEN WithStatus(generate_initial_response(ai1, query, category),
                               "Success", "direct")
               ELSE SimilarityPath(ai1, query, None) :
               ai1 \in train_model(ai, query, None, None)}

\* a variant that looks up a similar query whatever the corpus size
AfterTrainingLookup(ai1, query) ==
    SimilarityPath(ai1, query, get_query_category(query))

\* lines 664-736: the request after its query was recorded
AfterTraining(ai1, query) ==
    LET category == get_query_category(query)
    IN  IF Len(ai1.training_data.queries) < num_clusters
        THEN WithStatus(generate_initial_response(ai1, query, category),
                        "Success", "direct")
        ELSE SimilarityPath(ai1, query, category)

generate_response(ai, query) ==
    UNION {AfterTraining(ai1, query) : ai1 \in train_model(ai, query, None, None)}

(***************************************************************************)
(* State.                                                                  *)
(***************************************************************************)
VARIABLES
    training_data,       \* self.training_data
    query_count,         \* self.query_count
    used_response_sets,  \* self.used_response_sets: query -> list
    response_formats,    \* self.response_formats
    query_response_map,  \* category -> self.query_response_map[c]["responses"]
    vectorizer,          \* fit state of self.vectorizer
    labels_numpy,        \* cluster_labels holds np.int64 from custom_cluster
    data_file,           \* content of the file at self.data_file
    saved,               \* what was in memory at the last save_training_data,
                         \* kept until a restarted process serves a request
    reply,               \* outcome of the last request of the process
    returned,            \* <<category, response>> returned in this process
    passes,              \* re-clustering branches entered by the last request
                         \* the engine served
    handled,             \* number of requests the engine of this process served
    tasks,               \* handler coroutines of the event loop, in order of
                         \* arrival (SpecLoop)
    call                 \* the custom_cluster call in progress (SpecCluster)

engine == <<training_data, query_count, used_response_sets, response_formats,
            query_response_map, vectorizer, labels_numpy, data_file, saved>>

vars == <<engine, reply, returned, passes, handled, tasks, call>>

\* no call of custom_cluster was made
NoCall == [pc |-> "idle", features |-> <<>>, indices |-> <<>>, centroids |-> <<>>,
           labels |-> <<>>, done |-> 0, result |-> <<>>]

Self ==
    [training_data |-> training_data,
     query_count |-> query_count,
     used_response_sets |-> used_response_sets,
     response_formats |-> response_formats,
     query_response_map |-> query_response_map,
     vectorizer |-> vectorizer,
     labels_numpy |-> labels_numpy,
     data_file |-> data_file,
     saved |-> IF query_count = 0 THEN NoSave ELSE saved,
     passes |-> <<>>]

Becomes(ai) ==
    /\ training_data' = ai.training_data
    /\ query_count' = ai.query_count
    /\ used_response_sets' = ai.used_response_sets
    /\ response_formats' = ai.response_formats
    /\ query_response_map' = ai.query_response_map
    /\ vectorizer' = ai.vectorizer
    /\ labels_numpy' = ai.labels_numpy
    /\ data_file' = ai.data_file
    /\ saved' = ai.saved
    /\ passes' = ai.passes

NoReply(kind, text) ==
    [kind |-> kind, text |-> text, query |-> "", response |-> "", status |-> "",
     category |-> None, synthesized |-> FALSE, attempts |-> 0, available |-> 0,
     route |-> "", similar |-> None, lookup |-> NoLookup]

\* the result of a served request
Reply(text, query, o) ==
    [kind |-> "ok", text |-> text, query |-> query, response |-> o.response,
     status |-> o.status, category |-> o.category, synthesized |-> o.synthesized,
     attempts |-> o.attempts, available |-> o.available, route |-> o.route,
     similar |-> o.similar, lookup |-> o.lookup]

\* snapshot files a process may find at startup
NineQueries ==
    <<"the", "toilet", "the", "the", "toilet", "the", "the", "the", "the">>

InitFiles ==
    { MissingFile,
      JsonFile({"queries", "cluster_labels"},
               [queries |-> <<"toilet">>, cluster_labels |-> <<>>,
                generated_responses |-> <<>>]),
      JsonFile(AllKeys,
               [queries |-> NineQueries,
                cluster_labels |-> [i \in DOMAIN NineQueries |-> -1],
                generated_responses |-> <<>>]) }

Init ==
    /\ \E file \in InitFiles :
         LET ai == Construct(file, NoSave)
         IN  /\ training_data = ai.training_data
             /\ query_count = ai.query_count
             /\ used_response_sets = ai.used_response_sets
             /\ response_formats = ai.response_formats
             /\ query_response_map = ai.query_response_map
             /\ vectorizer = ai.vectorizer
             /\ labels_numpy = ai.labels_numpy
             /\ data_file = ai.data_file
             /\ saved = ai.saved
             /\ passes = ai.passes
    /\ reply = NoReply("started", "")
    /\ returned = {}
    /\ handled = 0
    /\ tasks = <<>>
    /\ call = NoCall

\* POST /generate-response with body {"query": text}; requests are explored
\* while query_count < bound
Handle(text, bound) ==
    LET query == Strip(text)
    IN  IF query = ""
        THEN /\ reply' = [NoReply("rejected", text) EXCEPT
                             !.status = "400: Query cannot be empty"]
             /\ UNCHANGED <<engine, returned, passes, handled, tasks, call>>
        ELSE /\ query_count < bound
             /\ \E o \in generate_response(Self, query) :
                  /\ Becomes(o.ai)
                  /\ reply' = Reply(text, query, o)
                  /\ returned' = returned \cup {<<o.category, o.response>>}
                  /\ handled' = handled + 1
                  /\ UNCHANGED <<tasks, call>>

Request(text) == Handle(text, MaxQueryCount)

\* the process is stopped and started again: ai = CustomAI()
Restart ==
    /\ Becomes(Construct(data_file, saved))
    /\ reply' = NoReply("started", "")
    /\ returned' = {}
    /\ handled' = 0
    /\ UNCHANGED <<tasks, call>>

Next ==
    \/ \E text \in QueryTexts : Request(text)
    \/ Restart

Spec == Init /\ [][Next]_vars

(***************************************************************************)
(* One process, started without a snapshot file, asked again and again     *)
(* about one topic in two spellings.                                       *)
(***************************************************************************)
RepeatTexts == {"toilet", "Toilet"}

InitRepeat ==
    /\ Init
    /\ data_file = MissingFile

RepeatRequest(text) == Handle(text, MaxRepeatCount)

NextRepeat == \E text \in RepeatTexts : RepeatRequest(text)

SpecRepeat == InitRepeat /\ [][NextRepeat]_vars

(***************************************************************************)
(* One process, started without a snapshot file, served until its corpus   *)
(* passed num_clusters queries: the first pass it can enter is the one on  *)
(* count 2 * train_interval.                                               *)
(***************************************************************************)
LongTexts == {"toilet", "the"}

InitLong == InitRepeat

LongRequest(text) == Handle(text, MaxLongCount)

NextLong == \E text \in LongTexts : LongRequest(text)

SpecLong == InitLong /\ [][NextLong]_vars

(***************************************************************************)
(* One process, started without a snapshot file, asked about one topic in  *)
(* two different words.                                                    *)
(***************************************************************************)
InitTopic == InitRepeat

TopicRequest(text) == Handle(text, MaxQueryCount)

NextTopic == \E text \in TopicTexts : TopicRequest(text)

SpecTopic == InitTopic /\ [][NextTopic]_vars

(***************************************************************************)
(* One process started on a snapshot of stop words only, two short of      *)
(* num_clusters and all labelled 0: fit_transform finds no term until a    *)
(* query with a term arrives.                                              *)
(***************************************************************************)
StopWordCorpus == [i \in 1..(num_clusters - 2) |-> "the"]

InitDegenerate ==
    /\ LET ai == Construct(JsonFile(AllKeys,
                      [queries |-> StopWordCorpus,
                       cluster_labels |-> [i \in DOMAIN StopWordCorpus |-> 0],
                       generated_responses |-> <<>>]), NoSave)
       IN  /\ training_data = ai.training_data
           /\ query_count = ai.query_count
           /\ used_response_sets = ai.used_response_sets
           /\ response_formats = ai.response_formats
           /\ query_response_map = ai.query_response_map
           /\ vectorizer = ai.vectorizer
           /\ labels_numpy = ai.labels_numpy
           /\ data_file = ai.data_file
           /\ saved = ai.saved
           /\ passes = ai.passes
    /\ reply = NoReply("started", "")
    /\ returned = {}
    /\ handled = 0
    /\ tasks = <<>>
    /\ call = NoCall

DegenerateRequest(text) == Handle(text, MaxQueryCount)

NextDegenerate == \E text \in DegenerateTexts : DegenerateRequest(text)

SpecDegenerate == InitDegenerate /\ [][NextDegenerate]_vars

(***************************************************************************)
(* The event loop of one process.  The handler is a coroutine (async def,  *)
(* line 741); each request is a task that runs its handler in two steps:   *)
(* Record (lines 742-744 and 663: strip, train_model) and Respond (lines   *)
(* 664-752).  The loop runs one task at a time and can switch to another   *)
(* task only where the running one awaits.                                 *)
(***************************************************************************)
\* a handler that awaits after recording its query
AwaitAfterRecord == {"recorded"}

\* the points of the handler body that hold an await expression: none
AwaitPoints == {}

LoopTexts == {"toilet", "the"}

Arrive(text) ==
    /\ Len(tasks) < MaxTasks
    /\ tasks' = Append(tasks, [text |-> text, pc |-> "arrived",
                               corpus |-> EmptyTrainingData, used |-> <<>>])
    /\ UNCHANGED <<engine, reply, returned, passes, handled, call>>

\* the loop may run task i: no other task is suspended inside its handler,
\* except at an await
MayRun(i) ==
    \A j \in DOMAIN tasks \ {i} :
        tasks[j].pc \in {"arrived", "done"} \cup AwaitPoints

Record(i) ==
    /\ tasks[i].pc = "arrived"
    /\ MayRun(i)
    /\ \E ai1 \in train_model(Self, Strip(tasks[i].text), None, None) :
         /\ Becomes(ai1)
         /\ tasks' = [tasks EXCEPT ![i].pc = "recorded",
                                   ![i].corpus = ai1.training_data,
                                   ![i].used = ai1.used_response_sets]
    /\ UNCHANGED <<reply, returned, handled, call>>

Respond(i) ==
    /\ tasks[i].pc = "recorded"
    /\ MayRun(i)
    /\ \E o \in AfterTraining([Self EXCEPT !.passes = passes],
                               Strip(tasks[i].text)) :
         /\ Becomes(o.ai)
         /\ reply' = Reply(tasks[i].text, Strip(tasks[i].text), o)
         /\ returned' = returned \cup {<<o.category, o.response>>}
    /\ handled' = handled + 1
    /\ tasks' = [tasks EXCEPT ![i].pc = "done"]
    /\ UNCHANGED call

InitLoop == InitRepeat

NextLoop ==
    \/ \E text \in LoopTexts : Arrive(text)
    \/ \E i \in DOMAIN tasks : Record(i)
    \/ \E i \in DOMAIN tasks : Respond(i)

SpecLoop == InitLoop /\ [][NextLoop]_vars

(***************************************************************************)
(* get_query_category over one- and two-word texts.                        *)
(***************************************************************************)
RouterWords ==
    {"toilet", "Toilet", "WASHROOM", "water bottle", "Water Service",
     "the", "this", "water", "bottle", "toile"}

RouterTexts == RouterWords \cup {a \o " " \o b : a, b \in RouterWords}

InitRouter == InitRepeat

Route(text) ==
    /\ reply' = [NoReply("routed", text) EXCEPT
                    !.query = text, !.category = get_query_category(text)]
    /\ UNCHANGED <<engine, returned, passes, handled, tasks, call>>

NextRouter == \E text \in RouterTexts : Route(text)

SpecRouter == InitRouter /\ [][NextRouter]_vars

(***************************************************************************)
(* load_training_data over the files a process may find: the file at       *)
(* data_file is replaced and the process started again.  A key that is     *)
(* absent from a JSON object has the empty value in `data`.                *)
(***************************************************************************)
LoadQueries == {<<>>, <<"toilet">>, <<"the">>, <<"the", "toilet">>}
LoadLabels == {<<>>, <<-1>>, <<0>>, <<-1, -1>>}
LoadLogs == {<<>>, "washroom_service" :> <<"for toilet">>,
             "water_bottle_service" :> <<"for water bottle">>}

LoadFiles ==
    {MissingFile, UnreadableFile, GarbageFile, JsonList}
    \cup {JsonFile(keys, [queries |-> q, cluster_labels |-> l,
                          generated_responses |-> g]) :
             <<keys, q, l, g>> \in
                 {x \in (SUBSET AllKeys) \X LoadQueries \X LoadLabels \X LoadLogs :
                     /\ "queries" \notin x[1] => x[2] = <<>>
                     /\ "cluster_labels" \notin x[1] => x[3] = <<>>
                     /\ "generated_responses" \notin x[1] => x[4] = <<>>}}

InitLoad == InitRepeat

Reload(file) ==
    /\ Becomes(Construct(file, NoSave))
    /\ reply' = NoReply("started", "")
    /\ returned' = {}
    /\ handled' = 0
    /\ UNCHANGED <<tasks, call>>

NextLoad == \E file \in LoadFiles : Reload(file)

SpecLoad == InitLoad /\ [][NextLoad]_vars

(***************************************************************************)
(* custom_cluster, statement by statement, over corpora of stop words      *)
(* followed by up to two queries of each of two terms, vectorized as       *)
(* fit_transform does.  Call is lines 527-531, Iterate one iteration of    *)
(* the loop at 533 or the return at 548.  One behaviour is one call.       *)
(***************************************************************************)
ClusterCorpora ==
    {[i \in 1..n |-> IF i <= n - jk[1] - jk[2] THEN "the"
                     ELSE IF i <= n - jk[2] THEN "toilet" ELSE "washroom"] :
        n \in (num_clusters - 1)..(num_clusters + 1),
        jk \in ((0..2) \X (0..2)) \ {<<0, 0>>}}

FeaturesOf(queries) ==
    [i \in DOMAIN queries |-> Features(FitVocabulary(queries), queries[i])]

Call(queries, indices) ==
    /\ call.pc = "idle"
    /\ call' =
          IF Len(queries) < num_clusters
          THEN [pc |-> "returned", features |-> FeaturesOf(queries),
                indices |-> <<>>, centroids |-> <<>>, labels |-> <<>>, done |-> 0,
                result |-> custom_cluster(FeaturesOf(queries), <<>>)]
          ELSE [pc |-> "loop", features |-> FeaturesOf(queries),
                indices |-> indices,
                centroids |-> [k \in 1..num_clusters |->
                                  [sum |-> FeaturesOf(queries)[indices[k]], n |-> 1]],
                labels |-> [i \in DOMAIN queries |-> -1],
                done |-> 0, result |-> <<>>]
    /\ UNCHANGED <<engine, reply, returned, passes, handled, tasks>>

Iterate ==
    /\ call.pc = "loop"
    /\ LET new_labels == AssignLabels(call.features, call.centroids)
       IN  call' =
             IF call.done < max_iterations /\ new_labels # call.labels
             THEN [call EXCEPT
                     !.labels = new_labels,
                     !.centroids = UpdateCentroids(call.features, call.centroids,
                                                   new_labels),
                     !.done = @ + 1]
             ELSE [call EXCEPT
                     !.pc = "returned",
                     !.result = custom_cluster(call.features, call.indices)]
    /\ UNCHANGED <<engine, reply, returned, passes, handled, tasks>>

InitCluster == InitRepeat

NextCluster ==
    \/ \E queries \in ClusterCorpora :
          \E indices \in (IF Len(queries) < num_clusters THEN {<<>>}
                           ELSE SeedSamples(Len(queries))) :
              Call(queries, indices)
    \/ Iterate

SpecCluster == InitCluster /\ [][NextCluster]_vars

(***************************************************************************)
(* Properties.                                                             *)
(***************************************************************************)
\* a step in which the engine served a request
Served == query_count' > query_count

IsBlank(text) == \A i \in 1..Len(text) : Char(text, i) \in SpaceSet

LogOf(category) ==
    IF category \in DOMAIN training_data.generated_responses
    THEN Range(training_data.generated_responses[category])
    ELSE {}

\* C1: within one process no response is returned twice for queries resolved
\* to the same category, whatever the raw texts of the requests.
C1_NoRepeatPerCategory ==
    [][Served => <<reply'.category, reply'.response>> \notin returned]_vars

\* C2: the same query text twice in a row, resolved to the same category,
\* gets two different responses when the bank held at least 2 templates whose
\* rendering had not been shown for this text.
C2_TwiceInARowDiffer ==
    [][(/\ Served
        /\ reply.kind = "ok"
        /\ reply'.query = reply.query
        /\ reply'.category = reply.category
        /\ reply.available >= 2)
       => reply'.response # reply.response]_vars

\* C3: once the bank is exhausted for a query text, each call returns a
\* synthesized response that differs from every response returned before for
\* that category.
C3_SynthesizedIsNew ==
    [][(Served /\ reply'.synthesized)
       => <<reply'.category, reply'.response>> \notin returned]_vars

\* C4: the corpus query list and the cluster-label list have the same length,
\* from the startup load on.
C4_SameLength ==
    Len(training_data.queries) = Len(training_data.cluster_labels)

\* C5: a process restarted after a save holds the corpus, the generated log
\* and the used-response sets that were in memory at the save.
C5_SaveLoadRoundTrip ==
    (reply.kind = "started" /\ saved.valid)
    => /\ training_data = saved.training_data
       /\ used_response_sets = saved.used_response_sets

\* C6: a string appended to a category's template list or to the generic list
\* is, when appended, neither in that list nor in the category's generated log.
C6_AppendedIsAbsent ==
    [][/\ \A c \in Categories :
            Len(query_response_map'[c]) = Len(query_response_map[c]) + 1
            => LET new == query_response_map'[c][Len(query_response_map'[c])]
               IN  new \notin Range(query_response_map[c]) \cup LogOf(c)
       /\ Len(response_formats') = Len(response_formats) + 1
          => response_formats'[Len(response_formats')] \notin Range(response_formats)
      ]_vars

\* C7: the synthesizer returns after at most two candidate generations.
C7_BoundedSynthesis ==
    (reply.kind = "ok" /\ reply.synthesized) => reply.attempts \in {1, 2}

\* a synthesized reply whose first candidate collided and was generated again
C7_Witness ==
    reply.kind = "ok" /\ reply.synthesized /\ reply.attempts = 2

\* C8: a request whose query is blank after trimming is rejected with the
\* client error and changes nothing of the engine.
C8_BlankRejected ==
    [][(reply' # reply /\ reply'.kind # "started" /\ IsBlank(reply'.text))
       => /\ reply'.kind = "rejected"
          /\ reply'.status = "400: Query cannot be empty"
          /\ UNCHANGED <<training_data, query_count, used_response_sets,
                         response_formats, query_response_map>>]_vars

\* a blank request rejected by a process that has served requests
C8_Witness ==
    reply.kind = "rejected" /\ IsBlank(reply.text) /\ query_count > 0

\* C9: the status is "Success" when the corpus, counting the current query,
\* holds fewer than num_clusters queries; otherwise "Success (clustered)" when
\* the similarity lookup completed, and an error description when it raised
\* and the response came from the fallback lookup.
C9_Status ==
    [][Served =>
        LET n == Len(training_data.queries) + 1
        IN  IF n < num_clusters
            THEN reply'.status = "Success"
            ELSE IF reply'.route = "fallback"
                 THEN reply'.status \in {"Model error: NotFittedError",
                                         "Model error: IndexError"}
                 ELSE reply'.status = "Success (clustered)"]_vars

\* a reply of the similarity path
C9_Witness ==
    /\ reply.kind = "ok"
    /\ reply.status = "Success (clustered)"
    /\ Len(training_data.queries) >= num_clusters

\* C10: the first request of an engine started with an empty corpus returns a
\* fixed template of the routed bank (the generic one when no keyword
\* matches) rendered with the lower-cased query, and leaves a corpus of one
\* query labelled -1.
C10_FirstRequest ==
    [][(/\ Served
        /\ query_count = 0
        /\ training_data.queries = <<>>
        /\ training_data.cluster_labels = <<>>)
       => LET category == get_query_category(reply'.query)
              bank == IF category # None THEN InitialResponses[category]
                      ELSE InitialResponseFormats
          IN  /\ reply'.response \in
                     {Format(bank[k], Lower(reply'.query)) : k \in DOMAIN bank}
              /\ training_data'.queries = <<reply'.query>>
              /\ training_data'.cluster_labels = <<-1>>]_vars

\* the first reply of such an engine to a query with an upper-case letter,
\* routed to a category
C10_Witness ==
    /\ reply.kind = "ok"
    /\ reply.text = "Toilet"
    /\ reply.category = "washroom_service"
    /\ training_data.queries = <<"Toilet">>
    /\ training_data.cluster_labels = <<-1>>

\* the re-clustering branches of the last served request that completed
CompletedPasses == {i \in DOMAIN passes : passes[i].completed}

C12_PassOnEveryFifthRequest ==
    [][Served =>
        ((passes' # <<>>)
         <=> (/\ handled' % train_interval = 0
              /\ Len(training_data.queries) + 1 >= num_clusters))]_vars

\* C13: every returned response contains the lower-cased text of the query of
\* its own request, whether selected from a bank or synthesized.
C13_ResponseHoldsQuery ==
    reply.kind = "ok" => Contains(reply.response, Lower(reply.query))

\* files that hold no usable snapshot: missing, unreadable, not JSON, not an
\* object, or an object without queries or without cluster_labels
Unusable(file) ==
    \/ file.kind \in {"missing", "unreadable", "garbage"}
    \/ ~file.isdict
    \/ "queries" \notin file.keys
    \/ "cluster_labels" \notin file.keys

\* C14: loading never raises; from a file that is missing, unreadable, not
\* valid JSON or not an object with the expected fields the engine starts
\* with the empty snapshot.
C14_LoadTolerant ==
    (reply.kind = "started" /\ Unusable(data_file))
    => training_data = EmptyTrainingData

\* an engine started from an object that has labels and no queries
C14_Witness ==
    /\ reply.kind = "started"
    /\ data_file.kind = "json" /\ data_file.isdict
    /\ "queries" \notin data_file.keys
    /\ data_file.data.cluster_labels # <<>>
    /\ training_data = EmptyTrainingData

\* C15: a snapshot file that is missing at startup is written by the load, so
\* that a started process always finds the file in place.
C15_MissingFileWritten ==
    reply.kind = "started" => data_file.kind # "missing"

\* C16: from an object that lacks exactly one of queries, cluster_labels and
\* generated_responses the load keeps the fields present and sets the missing
\* one to its empty form.
C16_MissingFieldDefaulted ==
    (/\ reply.kind = "started"
     /\ data_file.kind = "json" /\ data_file.isdict
     /\ Cardinality(AllKeys \ data_file.keys) = 1)
    => /\ training_data.queries = data_file.data.queries
       /\ training_data.cluster_labels = data_file.data.cluster_labels
       /\ training_data.generated_responses = data_file.data.generated_responses

\* C17: whenever the counter reaches a multiple of train_interval with at
\* least num_clusters queries in the corpus, the snapshot file is written and
\* holds the training data in memory at that moment (unless the file cannot
\* be opened).
C17_SnapshotWritten ==
    \A i \in DOMAIN passes :
        passes[i].io_ok => passes[i].file = Dump(passes[i].training_data)

\* the passes of the last served request whose save did not leave the
\* training data in the file
FailedWrites(p) ==
    {i \in DOMAIN p : p[i].completed /\ p[i].file # Dump(p[i].training_data)}

IsPrefix(s, t) == Len(s) <= Len(t) /\ SubSeq(t, 1, Len(s)) = s

\* C18: a failure while writing the snapshot file does not abort the request:
\* the response is returned, and the corpus and the labels computed by the
\* pass stay in memory.
C18_WriteFailureTolerated ==
    [][Served =>
        \A i \in FailedWrites(passes') :
            /\ reply'.kind = "ok"
            /\ reply'.response # ""
            /\ IsPrefix(passes'[i].training_data.queries, training_data'.queries)
            /\ IsPrefix(passes'[i].training_data.cluster_labels,
                        training_data'.cluster_labels)]_vars

\* a served request whose pass could not open the snapshot file
C18_Witness ==
    /\ reply.kind = "ok"
    /\ \E i \in FailedWrites(passes) : ~passes[i].io_ok

\* C19: when vectorization, the distance computation or the re-clustering
\* raises, the request still returns a response; after a raise in the
\* similarity lookup the response comes from the direct bank lookup with the
\* router's category of the current query.
C19_ErrorsRecovered ==
    [][Served =>
        /\ reply'.kind = "ok"
        /\ reply'.response # ""
        /\ reply'.route = "fallback" =>
             LET ai == EnsureUsed(Self, reply'.query)
                 c == Scope(ai, get_query_category(reply'.query))
                 bank == Bank(ai, c)
                 shown == Range(ai.used_response_sets[reply'.query])
                 fresh == {Format(bank[k], Lower(reply'.query)) : k \in DOMAIN bank}
                              \ shown
             IN  /\ reply'.category = c
                 /\ IF fresh = {} THEN reply'.synthesized
                    ELSE reply'.response \in fresh]_vars

\* a request whose similarity lookup raised and whose re-clustering raised
C19_Witness ==
    /\ reply.kind = "ok"
    /\ reply.route = "fallback"
    /\ \E i \in DOMAIN passes : ~passes[i].completed

\* the categories one of whose keywords is part of the lower-cased query
Hits(query) ==
    {c \in Categories :
        \E k \in DOMAIN Keywords[c] : Contains(Lower(query), Keywords[c][k])}

Position(c) == CHOOSE i \in DOMAIN CategoryOrder : CategoryOrder[i] = c

\* C20: the router returns the first category, in declaration order, that has
\* a keyword in the lower-cased query, None when no category has one, and
\* changes nothing of the engine.
C20_RouterFirstMatch ==
    [][reply'.kind = "routed" =>
        /\ IF Hits(reply'.query) = {} THEN reply'.category = None
           ELSE /\ reply'.category \in Hits(reply'.query)
                /\ \A c \in Hits(reply'.query) :
                       Position(reply'.category) <= Position(c)
        /\ UNCHANGED engine]_vars

\* a routed text with keywords of both categories, the later-declared first
C20_Witness ==
    /\ reply.kind = "routed"
    /\ reply.query = "Toilet water bottle"
    /\ reply.category = "water_bottle_service"

\* the tasks suspended between the two steps of the handler
Suspended == {i \in DOMAIN tasks : tasks[i].pc = "recorded"}

\* C21: the handling of one request never interleaves with that of another:
\* a request that has recorded its query finds the corpus, the labels and the
\* used-response sets as it left them, and no second request is inside its
\* handler.
C21_NoInterleaving ==
    /\ Cardinality(Suspended) <= 1
    /\ \A i \in Suspended :
          /\ training_data = tasks[i].corpus
          /\ used_response_sets = tasks[i].used

\* a request inside its handler while another has arrived and a third is done
C21_Witness ==
    /\ Suspended # {}
    /\ \E j \in DOMAIN tasks : tasks[j].pc = "arrived"
    /\ \E j \in DOMAIN tasks : tasks[j].pc = "done"

\* C22: each served request appends exactly one query with one label to the
\* corpus and adds exactly one to the query counter, whichever path gives the
\* response.
C22_OneEntryPerRequest ==
    [][Served =>
        /\ Len(training_data'.queries) = Len(training_data.queries) + 1
        /\ Len(training_data'.cluster_labels) = Len(training_data.cluster_labels) + 1
        /\ query_count' = query_count + 1]_vars

\* the bank scope of the router's category of a query
RoutedScope(query) ==
    IF get_query_category(query) \in Categories THEN get_query_category(query)
    ELSE None

\* C23 as stated: below num_clusters queries (counting the current one) the
\* response comes from the bank of the router's category and no lookup is
\* made; from num_clusters on, the category of a historical query is used.
C23_HistoricalCategoryFromK ==
    [][Served =>
        IF Len(training_data.queries) + 1 < num_clusters
        THEN /\ reply'.route = "direct"
             /\ reply'.lookup = NoLookup
             /\ reply'.category = RoutedScope(reply'.query)
        ELSE /\ reply'.similar # None
             /\ reply'.category = RoutedScope(reply'.similar)]_vars

\* the historical queries of the nearest match's cluster whose text differs,
\* case-insensitively, from the query
Eligible(lookup, query) ==
    {lookup.queries[j] : j \in
        {k \in DOMAIN lookup.queries \cap DOMAIN lookup.labels :
            /\ lookup.labels[k] = lookup.labels[lookup.nearest]
            /\ Lower(lookup.queries[k]) # Lower(query)}}

\* C23 amended: from num_clusters on, the category of a historical query is
\* used when the similarity lookup completed and the nearest match's cluster
\* holds a query with another text; otherwise the router's category of the
\* current query is used.
C23_CategoryBySize ==
    [][Served =>
        IF Len(training_data.queries) + 1 < num_clusters
        THEN /\ reply'.route = "direct"
             /\ reply'.lookup = NoLookup
             /\ reply'.category = RoutedScope(reply'.query)
        ELSE IF /\ reply'.route = "clustered"
                /\ Eligible(reply'.lookup, reply'.query) # {}
             THEN /\ reply'.similar \in Eligible(reply'.lookup, reply'.query)
                  /\ reply'.category = RoutedScope(reply'.similar)
             ELSE /\ reply'.similar = None
                  /\ reply'.category = RoutedScope(reply'.query)]_vars

\* a reply to "washroom" from the generic bank, by way of the historical
\* query "the"
C23_Witness ==
    /\ reply.kind = "ok"
    /\ Len(reply.lookup.queries) >= num_clusters
    /\ reply.query = "washroom"
    /\ reply.similar = "the"
    /\ reply.category = None

\* the used set of a query text before it is first seen is empty
UsedOf(used, query) == IF query \in DOMAIN used THEN used[query] ELSE <<>>

\* the list of a scope in given banks
ListOf(map, formats, scope) == IF scope # None THEN map[scope] ELSE formats

\* C24: when every template of the resolved bank renders to a string already
\* in the used set of the current query text, the request is answered with a
\* synthesized response; the used set is kept and gains that response, and
\* the bank's list gains exactly one entry, that response.
C24_ExhaustedBankSynthesizes ==
    [][(/\ Served
        /\ Unused(ListOf(query_response_map, response_formats, reply'.category),
                  UsedOf(used_response_sets, reply'.query), reply'.query) = <<>>)
       => /\ reply'.kind = "ok"
          /\ reply'.synthesized
          /\ used_response_sets'[reply'.query] =
                 Append(UsedOf(used_response_sets, reply'.query), reply'.response)
          /\ ListOf(query_response_map', response_formats', reply'.category) =
                 Append(ListOf(query_response_map, response_formats, reply'.category),
                        reply'.response)]_vars

\* a category bank exhausted for "toilet" and answered by synthesis
C24_Witness ==
    /\ reply.kind = "ok"
    /\ reply.synthesized
    /\ reply.category = "washroom_service"
    /\ Len(used_response_sets[reply.query]) >= 2
    /\ Len(query_response_map[reply.category]) > Len(InitialResponses[reply.category])

\* C25: every synthesized response that is returned is recorded in the
\* generated-response log under its scope, for category banks and for the
\* generic bank alike.
C25_SynthesizedLogged ==
    [][(Served /\ reply'.synthesized) =>
        \E scope \in DOMAIN training_data'.generated_responses :
            /\ reply'.category # None => scope = reply'.category
            /\ reply'.response \in Range(training_data'.generated_responses[scope])]_vars

\* the positions of a text where the {query} slot starts
SlotsIn(text) == {i \in 1..Len(text) : At(text, i, Slot)}

\* C26: every entry of every category bank and of the generic list contains
\* exactly one {query} slot, synthesized entries included, and no operation
\* removes or reorders the existing entries of a list.
C26_OneSlotPerEntry ==
    /\ \A c \in DOMAIN query_response_map :
          \A i \in DOMAIN query_response_map[c] :
              Cardinality(SlotsIn(query_response_map[c][i])) = 1
    /\ \A i \in DOMAIN response_formats :
          Cardinality(SlotsIn(response_formats[i])) = 1

\* C27: within one process the used set of a query text only grows: no
\* request clears or shrinks it, the request that finds the bank exhausted
\* and the direct lookup after a similarity error included.  The set of the
\* text served keeps what it held and gains the response returned.
C27_UsedSetsGrow ==
    [][handled' > handled =>
        /\ \A q \in DOMAIN used_response_sets :
              /\ q \in DOMAIN used_response_sets'
              /\ IsPrefix(used_response_sets[q], used_response_sets'[q])
        /\ Len(used_response_sets'[reply'.query]) >
               Len(UsedOf(used_response_sets, reply'.query))]_vars

\* a request answered by synthesis after a similarity error, for a text whose
\* used set already held a response
C27_Witness ==
    /\ reply.kind = "ok"
    /\ reply.route = "fallback"
    /\ reply.synthesized
    /\ Len(used_response_sets[reply.query]) >= 2

\* C28: on the similarity path, the historical query whose category is used
\* carries the same cluster label as the nearest match and never has the text
\* of the current query, compared case-insensitively; when the cluster holds
\* no query with another text, the router's category of the current query is
\* used.
C28_SimilarFromNearestCluster ==
    (reply.kind = "ok" /\ reply.route = "clustered") =>
        LET lookup == reply.lookup
            others == {j \in DOMAIN lookup.queries :
                          /\ lookup.labels[j] = lookup.labels[lookup.nearest]
                          /\ Lower(lookup.queries[j]) # Lower(reply.query)}
        IN  /\ reply.similar # None =>
                  /\ \E j \in others : lookup.queries[j] = reply.similar
                  /\ Lower(reply.similar) # Lower(reply.query)
            /\ others = {} =>
                  /\ reply.similar = None
                  /\ reply.category = RoutedScope(reply.query)

\* a reply by way of "the", found in the cluster of the nearest match while
\* "toilet" sits in another cluster
C28_Witness ==
    /\ reply.kind = "ok"
    /\ reply.route = "clustered"
    /\ reply.similar = "the"
    /\ \E j \in DOMAIN reply.lookup.queries :
          /\ reply.lookup.queries[j] = "toilet"
          /\ reply.lookup.labels[j] # reply.lookup.labels[reply.lookup.nearest]

\* C29: the nearest-history lookup compares the query only with the queries
\* recorded before the current request: the corpus entry appended for the
\* current request is never the nearest match.
C29_NearestIsHistorical ==
    (reply.kind = "ok" /\ reply.route = "clustered") =>
        reply.lookup.nearest < Len(reply.lookup.queries)

\* C30: a re-clustering pass is all-or-nothing on the labels.  A pass that
\* completes leaves every position of the corpus with a label computed from
\* the whole corpus: none stays unlabelled and equal texts carry equal
\* labels.  A pass whose vectorization or clustering raises leaves every
\* label as it was: those held before the request, then -1 for the entries
\* the request appended.
C30_PassAllOrNothing ==
    [][Served =>
        \A i \in DOMAIN passes' :
            LET td == passes'[i].training_data
                before == training_data.cluster_labels
            IN  IF passes'[i].completed
                THEN /\ Len(td.cluster_labels) = Len(td.queries)
                     /\ \A j \in DOMAIN td.cluster_labels :
                           td.cluster_labels[j] \in 0..(num_clusters - 1)
                     /\ \A j, k \in DOMAIN td.queries :
                           td.queries[j] = td.queries[k] =>
                               td.cluster_labels[j] = td.cluster_labels[k]
                ELSE /\ IsPrefix(before, td.cluster_labels)
                     /\ \A j \in DOMAIN td.cluster_labels :
                           j > Len(before) => td.cluster_labels[j] = -1
                     /\ IsPrefix(td.cluster_labels, training_data'.cluster_labels)]_vars

\* a request whose pass raised over a corpus that held labels
C30_Witness ==
    /\ reply.kind = "ok"
    /\ \E i \in DOMAIN passes :
          /\ ~passes[i].completed
          /\ \E j \in DOMAIN passes[i].training_data.cluster_labels :
                passes[i].training_data.cluster_labels[j] = 0

\* C31: whenever a request takes the similarity path (corpus of at least
\* num_clusters entries), the vectorizer was fitted earlier in the process:
\* the lookup does not fail for lack of a fitted vectorizer, whether the
\* process started on an empty snapshot or on one of num_clusters or more
\* queries.
C31_FittedBeforeLookup ==
    (reply.kind = "ok" /\ reply.route # "direct") =>
        reply.status # "Model error: NotFittedError"

\* C32: for every query text, the list of responses recorded as shown for it
\* never holds the same string twice, after any sequence of requests,
\* requests answered by synthesis included.
C32_UsedWithoutRepeats ==
    \A q \in DOMAIN used_response_sets :
        \A i, j \in DOMAIN used_response_sets[q] :
            used_response_sets[q][i] = used_response_sets[q][j] => i = j

\* C33: between requests the corpus length equals the number of queries in
\* the snapshot loaded at startup plus the query counter.  The counter is 0
\* when a process starts, whatever the snapshot holds, so a re-clustering
\* pass is entered on counts that are multiples of train_interval from
\* process start.
C33_CorpusIsSnapshotPlusCount ==
    /\ [](query_count = 0 =>
            training_data.queries = load_training_data(data_file).queries)
    /\ [][/\ reply'.kind = "started" => query_count' = 0
          /\ reply'.kind # "started" =>
                Len(training_data'.queries) - query_count' =
                    Len(training_data.queries) - query_count
          /\ Served => \A i \in DOMAIN passes' :
                /\ passes'[i].count % train_interval = 0
                /\ passes'[i].count > query_count
                /\ passes'[i].count <= query_count']_vars

\* a process started on the nine-query snapshot, in its fifth count, with a
\* pass entered on count 5 and a longer corpus
C33_Witness ==
    /\ reply.kind = "ok"
    /\ query_count >= train_interval
    /\ Len(training_data.queries) = Len(NineQueries) + query_count
    /\ \E i \in DOMAIN passes : passes[i].count = train_interval

\* the corpus positions that carry a cluster label
Labelled(td) == {j \in DOMAIN td.cluster_labels : td.cluster_labels[j] # -1}

\* C34: in a process started on an empty snapshot every cluster label is -1
\* or in 0..num_clusters-1, and a corpus position is labelled -1 exactly when
\* it was appended after the most recent pass that completed (every position
\* while no pass has completed): a request with a completed pass leaves
\* labelled exactly the positions its pass saw, any other request leaves the
\* labelled positions as they were.
C34_UnlabelledAfterLastPass ==
    /\ [](/\ Len(training_data.cluster_labels) = Len(training_data.queries)
          /\ \A j \in DOMAIN training_data.cluster_labels :
                training_data.cluster_labels[j] \in {-1} \cup 0..(num_clusters - 1))
    /\ [](handled = 0 => Labelled(training_data) = {})
    /\ [][Served =>
            IF \E i \in DOMAIN passes' : passes'[i].completed
            THEN \E i \in DOMAIN passes' :
                    /\ passes'[i].completed
                    /\ Labelled(training_data') =
                           DOMAIN passes'[i].training_data.queries
            ELSE Labelled(training_data') = Labelled(training_data)]_vars

\* the pass on count 10 completed and a query was appended after it
C34_Witness ==
    /\ reply.kind = "ok"
    /\ Labelled(training_data) # {}
    /\ Labelled(training_data) # DOMAIN training_data.queries

\* C35: custom_cluster returns one label per input point, for every input:
\* every label is -1 when there are fewer than num_clusters points; otherwise
\* the centroids were seeded from num_clusters distinct points of the input
\* and every label is the index, in 0..num_clusters-1, of one of them.
C35_OneLabelPerPoint ==
    call.pc = "returned" =>
        /\ Len(call.result) = Len(call.features)
        /\ IF Len(call.features) < num_clusters
           THEN \A i \in DOMAIN call.result : call.result[i] = -1
           ELSE /\ Len(call.indices) = num_clusters
                /\ \A k \in DOMAIN call.indices :
                      call.indices[k] \in DOMAIN call.features
                /\ \A k, l \in DOMAIN call.indices :
                      call.indices[k] = call.indices[l] => k = l
                /\ Len(call.centroids) = num_clusters
                /\ \A i \in DOMAIN call.result :
                      call.result[i] \in 0..(num_clusters - 1)

\* a call over num_clusters + 1 points that returned three different labels
C35_Witness ==
    /\ call.pc = "returned"
    /\ Len(call.features) = num_clusters + 1
    /\ Cardinality(Range(call.result)) = 3

====
